---------------------------- MODULE Spec2Model ----------------------------
(***************************************************************************)
(* The stake-pool epoch pipeline of mrgnlabs/stake-pool-tools: the five    *)
(* scripts under src/scripts, each modelled as a sequential process over   *)
(* the filesystem (data/epoch_<e> workspaces, output/), the snapshot       *)
(* bucket listing and the publish bucket.                                  *)
(*                                                                         *)
(*   Spec         prepare_epoch.main, generate_metas.main,                 *)
(*                generate_all_metas.main, generate_all_stats.main, run    *)
(*                one after the other on the same disk                     *)
(*   SpecLocator  prepare_epoch.find_jito_snapshot over bucket listings    *)
(*   SpecPublish  upload_stats.main over output directories                *)
(*                                                                         *)
(* File names are modelled as (prefix, decimal digits, extension), so that *)
(* str.sort, re.match and int() are computed on the digits and not on the  *)
(* epoch number.  Sizes are in units of 10^9 bytes.                        *)
(***************************************************************************)
EXTENDS Integers, Sequences, FiniteSets, TLC

VARIABLES
    data,           \* data/: [Epochs -> workspace], the directory epoch_<e>
    output,         \* output/: the set of file names in it
    script,         \* the script that is running, or "idle"
    pc,             \* the running script's position
    exit_code,      \* the process's exit status once pc = "exited"
    bin_exists,     \* os.path.exists(bin_path) during this run
    target_epoch,   \* target_epoch
    target_slot,    \* target_slot
    live_epoch,     \* live_epoch (generate_all_stats)
    files,          \* the sorted listing the script iterates over
    idx,            \* position of the for loop in files
    invoked,        \* subprocess.run calls of this run, in order
    remote,         \* downloads and RPC / bucket queries of this run, in order;
                    \* in upload_stats, "raised" for a bucket call that raised
    data0,          \* data/ as it was when this run started
    runs,           \* script runs started so far
    listing,        \* bucket.list_blobs() of the snapshot bucket
    selected,       \* find_jito_snapshot's result: <<blob>>, or <<>> on sys.exit
    manifest,       \* upload_stats: the manifest dict
    blob,           \* upload_stats: the local variable blob (<<>>: unbound)
    uploaded,       \* publish bucket: names of the objects written
    public_read,    \* publish bucket: names of the objects with the public-read ACL
    manifest_blob   \* publish bucket: <<manifest>> once manifest.json is written

vars == <<data, output, script, pc, exit_code, bin_exists, target_epoch,
          target_slot, live_epoch, files, idx, invoked, remote, data0, runs,
          listing, selected, manifest, blob, uploaded, public_read,
          manifest_blob>>

publishVars == <<manifest, blob, uploaded, public_read, manifest_blob>>

---------------------------------------------------------------------------
(* Bounds of the model.                                                    *)

\* Script runs in one behaviour of Spec.
MaxRuns == 2
\* Blobs in one listing of the snapshot bucket (SpecLocator).
MaxBlobs == 3
\* Slots the RPC service may answer with: 1..MaxSlot.
MaxSlot == 2

\* Epochs of the model: one below the minimum supported epoch, and two
\* supported ones whose decimal strings sort against their values.
Epochs == {99, 516, 1000}
Slots == 1..MaxSlot
\* Epochs the chain may report as live.
LiveEpochs == {517, 1001}

---------------------------------------------------------------------------
(* Program constants.                                                      *)

\* `target_epoch < 516` in generate_all_metas.main.
MinSupportedEpoch == 516
\* `blob.size > 10_000_000_000` in find_jito_snapshot, in units of 10^9 bytes.
SizeFloor == 10
JITO_PREFERRED_WAREHOUSE == <<"ny-mainnet-warehouse-1">>
METAS_BINARY == "generate-metas"
STATS_BINARY == "generate-normalized-stats"

---------------------------------------------------------------------------
(* Strings: decimal digits, str() and int(), list.sort().                  *)

RECURSIVE Digits(_)
\* str(n) of a non-negative int, as the sequence of its decimal digits.
Digits(n) == IF n < 10 THEN <<n>> ELSE Append(Digits(n \div 10), n % 10)

RECURSIVE ParseInt(_)
\* int(s) of a non-empty digit string.
ParseInt(s) ==
    IF Len(s) = 0 THEN 0
    ELSE 10 * ParseInt(SubSeq(s, 1, Len(s) - 1)) + s[Len(s)]

RECURSIVE StrLess(_, _)
\* s < t for Python strings given as sequences of character codes: the
\* first differing character decides, a proper prefix is smaller.
StrLess(s, t) ==
    IF Len(t) = 0 THEN FALSE
    ELSE IF Len(s) = 0 THEN TRUE
    ELSE IF s[1] # t[1] THEN s[1] < t[1]
    ELSE StrLess(Tail(s), Tail(t))

\* Whether t occurs in s as a contiguous piece (Python's `t in s`).
Contains(s, t) ==
    \E i \in 1..(Len(s) - Len(t) + 1) : SubSeq(s, i, i + Len(t) - 1) = t

\* Whether t ends s.
EndsWith(s, t) ==
    Len(t) =< Len(s) /\ SubSeq(s, Len(s) - Len(t) + 1, Len(s)) = t

RECURSIVE Perms(_)
\* Every order in which os.listdir or list_blobs may return the entries S.
Perms(S) ==
    IF S = {} THEN {<<>>}
    ELSE UNION {{<<x>> \o p : p \in Perms(S \ {x})} : x \in S}

RECURSIVE SeqsUpTo(_, _)
\* The sequences of at most n distinct elements of S.
SeqsUpTo(S, n) ==
    IF n = 0 THEN {<<>>}
    ELSE {<<>>} \cup UNION {{<<x>> \o p : p \in SeqsUpTo(S \ {x}, n - 1)} : x \in S}

Min(S) == CHOOSE x \in S : \A y \in S : x =< y
Max(S) == CHOOSE x \in S : \A y \in S : y =< x


---------------------------------------------------------------------------
(* prepare_epoch.find_jito_snapshot and find_blob_in_bucket.               *)
(* A blob of the snapshot bucket is named                                  *)
(*   <epoch_dir>/<warehouse>/snapshot-<slot>-<hash>.tar.zst                *)
(* and is kept as its parts; warehouse is a string given in pieces, so     *)
(* that "ny-mainnet-warehouse-10" contains "ny-mainnet-warehouse-1".       *)

Warehouses ==
    { <<"ny-mainnet-warehouse-1">>,
      <<"ny-mainnet-warehouse-1", "0">>,
      <<"other-warehouse">> }
\* Blob sizes: below the floor, exactly the floor, above it.
Sizes == {SizeFloor - 5, SizeFloor, SizeFloor + 1}
\* The blobs of the model: every warehouse and size at slot 1, and one large
\* blob of the preferred warehouse at each other slot.
BlobsUnder(epoch) ==
    { b \in [epoch_dir : {Digits(epoch)}, warehouse : Warehouses,
             slot : Slots, size : Sizes] :
        b.slot > 1 => (b.size > SizeFloor /\ b.warehouse = JITO_PREFERRED_WAREHOUSE) }
BlobUniverse == BlobsUnder(516)

\* re.search(snapshot_regex, blob.name): the pattern is not anchored at its
\* start, so the epoch's digits need only end the first path segment.
RegexSearch(b, epoch, slot) ==
    /\ EndsWith(b.epoch_dir, Digits(epoch))
    /\ b.slot = slot

\* find_blob_in_bucket: the blobs whose name matches, in listing order.
find_blob_in_bucket(blobs, epoch, slot) ==
    LET Test(b) == RegexSearch(b, epoch, slot)
    IN  SelectSeq(blobs, Test)

\* The lambda of the size filter.
SizeFilterLoose(b) == b.size >= SizeFloor
SizeFilter(b) == b.size > SizeFloor

\* `JITO_PREFERRED_WAREHOUSE in snapshot.name`
InPreferred(b) == Contains(b.warehouse, JITO_PREFERRED_WAREHOUSE)

\* The selection loop over snapshots_found (non-empty).
SelectSnapshotNoPreference(found) == found[1]
SelectSnapshot(found) ==
    LET pref == {i \in 1..Len(found) : InPreferred(found[i])}
    IN  IF pref = {} THEN found[1] ELSE found[Min(pref)]

\* find_jito_snapshot: <<the selected blob>>, or <<>> when it calls sys.exit(1).
find_jito_snapshot(blobs, epoch, slot) ==
    LET snapshots_found == SelectSeq(find_blob_in_bucket(blobs, epoch, slot), SizeFilter)
    IN  IF Len(snapshots_found) = 0 THEN <<>>
        ELSE <<SelectSnapshot(snapshots_found)>>

---------------------------------------------------------------------------
(* File names of data/ and output/.                                        *)

Name(prefix, epoch, ext) == [prefix |-> prefix, digits |-> Digits(epoch), ext |-> ext]
\* f"epoch_{target_epoch}"
EpochDir(e) == Name("epoch_", e, "")
\* f"stake_pool_metas_{target_epoch}.json"
MetasFile(e) == Name("stake_pool_metas_", e, ".json")
\* STAKE_POOL_FILENAME_TEMPLATE, f"stats_{target_epoch}.json"
StatsFile(e) == Name("stats_", e, ".json")
\* f"{STAKE_POOL_STATS_DIR}/manifest.json"
ManifestName == [prefix |-> "manifest", digits |-> <<>>, ext |-> ".json"]

\* The characters of a name that decide a comparison: of the prefix the
\* codes of the first characters two prefixes differ in ("e", "stak",
\* "stat", "m"), the digits' codes, and "." when an extension follows.
NameChars(n) ==
    (CASE n.prefix = "epoch_" -> <<101>>
       [] n.prefix = "manifest" -> <<109>>
       [] n.prefix = "stake_pool_metas_" -> <<115, 107>>
       [] n.prefix = "stats_" -> <<115, 116>>)
    \o [i \in 1..Len(n.digits) |-> 48 + n.digits[i]]
    \o (IF n.ext = "" THEN <<>> ELSE <<46>>)

RECURSIVE Insert(_, _)
Insert(x, s) ==
    IF s = <<>> THEN <<x>>
    ELSE IF StrLess(NameChars(x), NameChars(s[1])) THEN <<x>> \o s
    ELSE <<s[1]>> \o Insert(x, Tail(s))

RECURSIVE SortedNames(_)
SortedNames(s) == IF s = <<>> THEN <<>> ELSE Insert(s[1], SortedNames(Tail(s)))

\* list.sort() left out: the listing as os.listdir returned it.
ListSortMissing(s) == s
\* list.sort() of a listing of names.
ListSort(s) == SortedNames(s)

\* re.match(prefix + "([0-9]+)" + ext, name): the digits must be there, and
\* the pattern is not anchored at its end.
ReMatch(prefix, ext, n) ==
    /\ n.prefix = prefix
    /\ Len(n.digits) >= 1
    /\ (ext = "" \/ n.ext = ext)

\* int(match.groups()[0])
GroupInt(n) == ParseInt(n.digits)

---------------------------------------------------------------------------
(* The values the run variables hold while no script uses them.            *)

NoWorkspace ==
    [exists |-> FALSE, genesis_tar |-> FALSE, snapshot |-> FALSE,
     rocksdb |-> "absent", accounts |-> "absent", genesis_bin |-> "absent"]
EmptyData == [e \in Epochs |-> NoWorkspace]
EmptyManifest == [latest |-> <<>>, epochs |-> <<>>]

IdleLocator == listing = <<>> /\ selected = <<>>
IdlePublish ==
    /\ manifest = EmptyManifest /\ blob = <<>>
    /\ uploaded = {} /\ public_read = {} /\ manifest_blob = <<>>

---------------------------------------------------------------------------
(* The workspace data/epoch_<e> and the generators.                        *)

\* What a completed prepare_epoch run leaves: the directory with the genesis
\* archive and the snapshot archive.
Prepared ==
    [exists |-> TRUE, genesis_tar |-> TRUE, snapshot |-> TRUE,
     rocksdb |-> "absent", accounts |-> "absent", genesis_bin |-> "absent"]

Derived == {"rocksdb", "accounts", "genesis_bin"}

\* shutil.rmtree(path): raises unless path is a directory.
RmTree(kind) == [kind |-> "absent", raised |-> kind # "dir"]
\* os.remove(path): raises unless path is a file.
Remove(kind) == [kind |-> "absent", raised |-> kind # "file"]

\* "Delete previous artifacts" (generate_metas.py 35-44, generate_all_metas.py
\* 47-56): each removal is guarded by exists/isdir or isfile.  The result is
\* the workspace and whether a removal raised.
ResetDerivedKeepsGenesis(w) ==
    [ws |-> [w EXCEPT !.rocksdb = IF @ = "dir" THEN "absent" ELSE @,
                      !.accounts = IF @ = "dir" THEN "absent" ELSE @],
     raised |-> FALSE]
ResetDerivedUnguarded(w) ==
    LET r == RmTree(w.rocksdb)
        a == RmTree(w.accounts)
        g == Remove(w.genesis_bin)
    IN  IF r.raised THEN [ws |-> w, raised |-> TRUE]
        ELSE IF a.raised THEN [ws |-> [w EXCEPT !.rocksdb = r.kind], raised |-> TRUE]
        ELSE [ws |-> [w EXCEPT !.rocksdb = r.kind, !.accounts = a.kind,
                               !.genesis_bin = g.kind],
              raised |-> g.raised]
\* The reset as it would be with the whole directory removed, archives included.
ResetDerivedRemovesArchives(w) ==
    [ws |-> [w EXCEPT !.rocksdb = "absent", !.accounts = "absent",
                      !.genesis_bin = "absent", !.genesis_tar = FALSE,
                      !.snapshot = FALSE],
     raised |-> FALSE]
ResetDerived(w) ==
    LET r == IF w.rocksdb = "dir" THEN RmTree(w.rocksdb)
             ELSE [kind |-> w.rocksdb, raised |-> FALSE]
        a == IF w.accounts = "dir" THEN RmTree(w.accounts)
             ELSE [kind |-> w.accounts, raised |-> FALSE]
        g == IF w.genesis_bin = "file" THEN Remove(w.genesis_bin)
             ELSE [kind |-> w.genesis_bin, raised |-> FALSE]
    IN  IF r.raised THEN [ws |-> w, raised |-> TRUE]
        ELSE IF a.raised THEN [ws |-> [w EXCEPT !.rocksdb = r.kind], raised |-> TRUE]
        ELSE [ws |-> [w EXCEPT !.rocksdb = r.kind, !.accounts = a.kind,
                               !.genesis_bin = g.kind],
              raised |-> g.raised]

\* Return codes of subprocess.run: success, failure, killed by a signal.
ReturnCodes == {0, 1, -9}

\* The metas generator on a workspace: with return code 0 it has unpacked
\* the three derived artifacts (it needs both archives for that); otherwise
\* it leaves any of them behind.
MetasGeneratorLeaves(w, rc) ==
    IF rc = 0
    THEN IF w.genesis_tar /\ w.snapshot
         THEN {[w EXCEPT !.rocksdb = "dir", !.accounts = "dir", !.genesis_bin = "file"]}
         ELSE {}
    ELSE { [w EXCEPT !.rocksdb = IF "rocksdb" \in D THEN "dir" ELSE @,
                     !.accounts = IF "accounts" \in D THEN "dir" ELSE @,
                     !.genesis_bin = IF "genesis_bin" \in D THEN "file" ELSE @]
           : D \in SUBSET Derived }

\* epoch_schedule.value.get_last_slot_in_epoch(target_epoch): the RPC
\* service's answer, one slot per epoch.
get_last_slot_in_epoch(epoch) == 1 + (epoch % MaxSlot)

\* `if target_epoch < 516: continue` of generate_all_metas.main.
NotSupported(epoch) == epoch < MinSupportedEpoch

\* `is_latest = target_epoch == (live_epoch - 1)`
IsLatestIsLive(epoch, live) == epoch = live
IsLatest(epoch, live) == epoch = live - 1

\* Where a batch script goes after subprocess.run returned rc: the return
\* code is not looked at.
AfterGeneratorChecked(rc) == IF rc = 0 THEN "loop" ELSE "exited"
AfterGenerator(rc) == "loop"

\* `if os.path.exists(epoch_dir)` of prepare_epoch.main.
EpochDirExistsIgnored(w) == FALSE
EpochDirExists(w) == w.exists

\* The directory of data/ a name of the listing is.
DirEpoch(dir_name) == CHOOSE e \in Epochs : EpochDir(e) = dir_name

---------------------------------------------------------------------------
(* Spec: the four scripts that work on data/ and output/, run one after    *)
(* the other.  Initially every workspace is missing or as a completed      *)
(* prepare_epoch run leaves it, and output/ is empty.                      *)

Init ==
    /\ data \in [Epochs -> {NoWorkspace, Prepared}]
    /\ output = {}
    /\ script = "idle" /\ pc = "idle" /\ exit_code = 0 /\ bin_exists = TRUE
    /\ target_epoch = 0 /\ target_slot = 0 /\ live_epoch = 0
    /\ files = <<>> /\ idx = 1 /\ invoked = <<>> /\ remote = <<>>
    /\ data0 = data /\ runs = 0
    /\ IdleLocator
    /\ IdlePublish

\* A script is started from the shell once the previous one has ended.
StartRun(name) ==
    /\ pc \in {"idle", "exited"}
    /\ runs < MaxRuns
    /\ script' = name
    /\ runs' = runs + 1
    /\ target_slot' = 0 /\ live_epoch' = 0
    /\ idx' = 1
    /\ invoked' = <<>> /\ remote' = <<>>
    /\ data0' = data

\* sys.exit(code), an uncaught exception (status 1), or the end of main.
Exit(code) == pc' = "exited" /\ exit_code' = code

\* ---- prepare_epoch.main ----

\* Lines 16-37: the one-shot check and os.makedirs(epoch_dir).
PrepareStart(e) ==
    /\ StartRun("prepare_epoch")
    /\ target_epoch' = e
    /\ bin_exists' = TRUE
    /\ files' = <<>>
    /\ IF EpochDirExists(data[e])
       THEN Exit(1) /\ UNCHANGED data
       ELSE /\ data' = [data EXCEPT ![e].exists = TRUE]
            /\ pc' = "download_genesis" /\ exit_code' = 0
    /\ UNCHANGED <<output, listing, selected>>
    /\ UNCHANGED publishVars

\* Lines 39-41: download_file(genesis_url, ...); requests.get may raise.
PrepareDownloadGenesis ==
    /\ script = "prepare_epoch" /\ pc = "download_genesis"
    /\ remote' = Append(remote, "download_genesis")
    /\ \/ /\ data' = [data EXCEPT ![target_epoch].genesis_tar = TRUE]
          /\ pc' = "get_epoch_schedule" /\ UNCHANGED exit_code
       \/ Exit(1) /\ UNCHANGED data
    /\ UNCHANGED <<output, script, bin_exists, target_epoch, target_slot,
                   live_epoch, files, idx, invoked, data0, runs, listing,
                   selected>>
    /\ UNCHANGED publishVars

\* Lines 43-46: the RPC query for the epoch's last slot; it may raise.
PrepareGetSlot ==
    /\ script = "prepare_epoch" /\ pc = "get_epoch_schedule"
    /\ remote' = Append(remote, "get_epoch_schedule")
    /\ \/ /\ target_slot' = get_last_slot_in_epoch(target_epoch)
          /\ pc' = "find_jito_snapshot" /\ UNCHANGED exit_code
       \/ Exit(1) /\ UNCHANGED target_slot
    /\ UNCHANGED <<data, output, script, bin_exists, target_epoch, live_epoch,
                   files, idx, invoked, data0, runs, listing, selected>>
    /\ UNCHANGED publishVars

\* Line 48: find_jito_snapshot on what the bucket lists for this epoch.
PrepareFindSnapshot ==
    /\ script = "prepare_epoch" /\ pc = "find_jito_snapshot"
    /\ remote' = Append(remote, "list_blobs")
    /\ \E blobs \in SeqsUpTo(BlobsUnder(target_epoch), 1) :
          IF find_jito_snapshot(blobs, target_epoch, target_slot) = <<>>
          THEN Exit(1)
          ELSE pc' = "download_snapshot" /\ UNCHANGED exit_code
    /\ UNCHANGED <<data, output, script, bin_exists, target_epoch, target_slot,
                   live_epoch, files, idx, invoked, data0, runs, listing,
                   selected>>
    /\ UNCHANGED publishVars

\* Lines 49-51: download_file(snapshot_url, ...), then main ends.
PrepareDownloadSnapshot ==
    /\ script = "prepare_epoch" /\ pc = "download_snapshot"
    /\ remote' = Append(remote, "download_snapshot")
    /\ \/ /\ data' = [data EXCEPT ![target_epoch].snapshot = TRUE]
          /\ Exit(0)
       \/ Exit(1) /\ UNCHANGED data
    /\ UNCHANGED <<output, script, bin_exists, target_epoch, target_slot,
                   live_epoch, files, idx, invoked, data0, runs, listing,
                   selected>>
    /\ UNCHANGED publishVars

\* ---- generate_metas.main ----

\* Lines 13-54: the workspace check, the removal of the previous artifacts
\* and the check for the binary.
GenMetasStart(e) ==
    /\ StartRun("generate_metas")
    /\ target_epoch' = e
    /\ bin_exists' \in BOOLEAN
    /\ files' = <<>>
    /\ IF ~data[e].exists
       THEN Exit(1) /\ UNCHANGED data
       ELSE LET reset == ResetDerived(data[e])
            IN  /\ data' = [data EXCEPT ![e] = reset.ws]
                /\ IF reset.raised \/ ~bin_exists'
                   THEN Exit(1)
                   ELSE pc' = "get_epoch_schedule" /\ exit_code' = 0
    /\ UNCHANGED <<output, listing, selected>>
    /\ UNCHANGED publishVars

\* Lines 56-59: the RPC query for the epoch's last slot; it may raise.
GenMetasGetSlot ==
    /\ script = "generate_metas" /\ pc = "get_epoch_schedule"
    /\ remote' = Append(remote, "get_epoch_schedule")
    /\ \/ /\ target_slot' = get_last_slot_in_epoch(target_epoch)
          /\ pc' = "invoke" /\ UNCHANGED exit_code
       \/ Exit(1) /\ UNCHANGED target_slot
    /\ UNCHANGED <<data, output, script, bin_exists, target_epoch, live_epoch,
                   files, idx, invoked, data0, runs, listing, selected>>
    /\ UNCHANGED publishVars

\* The subprocess.run of the metas generator on data/epoch_<e>; the record
\* keeps the arguments, the epoch the call is made for and the return code.
InvokeMetasGenerator(e, rc) ==
    /\ invoked' = Append(invoked,
          [binary |-> METAS_BINARY, epoch |-> target_epoch,
           ledger_path |-> EpochDir(e),
           out_path |-> MetasFile(target_epoch),
           snapshot_slot |-> target_slot, rc |-> rc])
    /\ \E w \in MetasGeneratorLeaves(data[e], rc) :
          data' = [data EXCEPT ![e] = w]
    /\ output' = IF rc = 0 THEN output \cup {MetasFile(target_epoch)} ELSE output

\* Lines 61-75: the generator is run, its return code is dropped, main ends.
GenMetasInvoke ==
    /\ script = "generate_metas" /\ pc = "invoke"
    /\ \E rc \in ReturnCodes : InvokeMetasGenerator(target_epoch, rc)
    /\ Exit(0)
    /\ UNCHANGED <<script, bin_exists, target_epoch, target_slot, live_epoch,
                   files, idx, remote, data0, runs, listing, selected>>
    /\ UNCHANGED publishVars

\* ---- generate_all_metas.main ----

\* Lines 14-31: os.listdir(epochs_dir), in any order, then sorted.
AllMetasStart ==
    /\ StartRun("generate_all_metas")
    /\ bin_exists' \in BOOLEAN
    /\ \E order \in Perms({EpochDir(e) : e \in {x \in Epochs : data[x].exists}}) :
          files' = ListSort(order)
    /\ target_epoch' = 0
    /\ pc' = "loop" /\ exit_code' = 0
    /\ UNCHANGED <<data, output, listing, selected>>
    /\ UNCHANGED publishVars

\* Lines 32-68: one entry of the listing, up to the binary check.
AllMetasIter ==
    /\ script = "generate_all_metas" /\ pc = "loop" /\ idx =< Len(files)
    /\ LET dir_name == files[idx]
           epoch == GroupInt(dir_name)
           e == DirEpoch(dir_name)
           reset == ResetDerived(data[e])
       IN  IF ~ReMatch("epoch_", "", dir_name)
           THEN idx' = idx + 1 /\ UNCHANGED <<data, pc, exit_code, target_epoch>>
           ELSE IF NotSupported(epoch) \/ ~data[e].exists
           THEN /\ idx' = idx + 1 /\ target_epoch' = epoch
                /\ UNCHANGED <<data, pc, exit_code>>
           ELSE /\ target_epoch' = epoch
                /\ data' = [data EXCEPT ![e] = reset.ws]
                /\ IF reset.raised \/ ~bin_exists
                   THEN Exit(1)
                   ELSE pc' = "get_epoch_schedule" /\ UNCHANGED exit_code
                /\ UNCHANGED idx
    /\ UNCHANGED <<output, script, bin_exists, target_slot, live_epoch, files,
                   invoked, remote, data0, runs, listing, selected>>
    /\ UNCHANGED publishVars

\* Lines 70-72: the RPC query; an exception ends the whole batch.
AllMetasGetSlot ==
    /\ script = "generate_all_metas" /\ pc = "get_epoch_schedule"
    /\ remote' = Append(remote, "get_epoch_schedule")
    /\ \/ /\ target_slot' = get_last_slot_in_epoch(target_epoch)
          /\ pc' = "invoke" /\ UNCHANGED exit_code
       \/ Exit(1) /\ UNCHANGED target_slot
    /\ UNCHANGED <<data, output, script, bin_exists, target_epoch, live_epoch,
                   files, idx, invoked, data0, runs, listing, selected>>
    /\ UNCHANGED publishVars

\* Lines 74-93: the generator is run and the loop goes on.
AllMetasInvoke ==
    /\ script = "generate_all_metas" /\ pc = "invoke"
    /\ \E rc \in ReturnCodes :
          /\ InvokeMetasGenerator(DirEpoch(files[idx]), rc)
          /\ pc' = AfterGenerator(rc)
          /\ exit_code' = IF pc' = "exited" THEN 1 ELSE exit_code
    /\ idx' = idx + 1
    /\ UNCHANGED <<script, bin_exists, target_epoch, target_slot, live_epoch,
                   files, remote, data0, runs, listing, selected>>
    /\ UNCHANGED publishVars

\* The for loop is over and main returns.
AllMetasEnd ==
    /\ script = "generate_all_metas" /\ pc = "loop" /\ idx > Len(files)
    /\ Exit(0)
    /\ UNCHANGED <<data, output, script, bin_exists, target_epoch, target_slot,
                   live_epoch, files, idx, invoked, remote, data0, runs,
                   listing, selected>>
    /\ UNCHANGED publishVars

\* ---- generate_all_stats.main ----

\* Lines 14-27: nothing but paths.
AllStatsStart ==
    /\ StartRun("generate_all_stats")
    /\ bin_exists' \in BOOLEAN
    /\ target_epoch' = 0
    /\ files' = <<>>
    /\ pc' = "get_epoch_info" /\ exit_code' = 0
    /\ UNCHANGED <<data, output, listing, selected>>
    /\ UNCHANGED publishVars

\* Lines 29-34: the live epoch is asked for, once; then os.listdir(metas_dir),
\* in any order, sorted.  The RPC query may raise.
AllStatsGetEpochInfo ==
    /\ script = "generate_all_stats" /\ pc = "get_epoch_info"
    /\ remote' = Append(remote, "get_epoch_info")
    /\ \/ /\ live_epoch' \in LiveEpochs
          /\ \E order \in Perms(output) : files' = ListSort(order)
          /\ pc' = "loop" /\ UNCHANGED exit_code
       \/ Exit(1) /\ UNCHANGED <<live_epoch, files>>
    /\ UNCHANGED <<data, output, script, bin_exists, target_epoch, target_slot,
                   idx, invoked, data0, runs, listing, selected>>
    /\ UNCHANGED publishVars

\* Lines 35-74: one entry of the listing: a metas file has the stats
\* generator run on it, with the fallback flag when is_latest.
AllStatsIter ==
    /\ script = "generate_all_stats" /\ pc = "loop" /\ idx =< Len(files)
    /\ LET file_name == files[idx]
           epoch == GroupInt(file_name)
       IN  IF ~ReMatch("stake_pool_metas_", ".json", file_name)
           THEN /\ idx' = idx + 1
                /\ UNCHANGED <<output, pc, exit_code, target_epoch, invoked>>
           ELSE /\ target_epoch' = epoch
                /\ IF ~bin_exists
                   THEN Exit(1) /\ UNCHANGED <<output, invoked, idx>>
                   ELSE \E rc \in ReturnCodes :
                          /\ invoked' = Append(invoked,
                                [binary |-> STATS_BINARY,
                                 out_path |-> StatsFile(epoch),
                                 epoch |-> epoch,
                                 use_live_price_fallback |-> IsLatest(epoch, live_epoch),
                                 rc |-> rc])
                          /\ output' = IF rc = 0
                                       THEN output \cup {StatsFile(epoch)}
                                       ELSE output
                          /\ pc' = AfterGenerator(rc)
                          /\ exit_code' = IF pc' = "exited" THEN 1 ELSE exit_code
                          /\ idx' = idx + 1
    /\ UNCHANGED <<data, script, bin_exists, target_slot, live_epoch, files,
                   remote, data0, runs, listing, selected>>
    /\ UNCHANGED publishVars

\* The for loop is over and main returns.
AllStatsEnd ==
    /\ script = "generate_all_stats" /\ pc = "loop" /\ idx > Len(files)
    /\ Exit(0)
    /\ UNCHANGED <<data, output, script, bin_exists, target_epoch, target_slot,
                   live_epoch, files, idx, invoked, remote, data0, runs,
                   listing, selected>>
    /\ UNCHANGED publishVars

Next ==
    \/ \E e \in Epochs : PrepareStart(e)
    \/ PrepareDownloadGenesis
    \/ PrepareGetSlot
    \/ PrepareFindSnapshot
    \/ PrepareDownloadSnapshot
    \/ \E e \in Epochs : GenMetasStart(e)
    \/ GenMetasGetSlot
    \/ GenMetasInvoke
    \/ AllMetasStart
    \/ AllMetasIter
    \/ AllMetasGetSlot
    \/ AllMetasInvoke
    \/ AllMetasEnd
    \/ AllStatsStart
    \/ AllStatsGetEpochInfo
    \/ AllStatsIter
    \/ AllStatsEnd

Spec == Init /\ [][Next]_vars

---------------------------------------------------------------------------
(* SpecLocator: find_jito_snapshot(target_epoch, target_slot) called on    *)
(* every listing of at most MaxBlobs blobs.                                *)

InitLocator ==
    /\ data = EmptyData /\ output = {}
    /\ script = "find_jito_snapshot" /\ pc = "call" /\ exit_code = 0
    /\ bin_exists = TRUE
    /\ target_epoch \in {516, 517} /\ target_slot \in Slots /\ live_epoch = 0
    /\ files = <<>> /\ idx = 1 /\ invoked = <<>> /\ remote = <<>>
    /\ data0 = EmptyData /\ runs = 0
    /\ listing \in SeqsUpTo(BlobUniverse, MaxBlobs)
    /\ selected = <<>>
    /\ IdlePublish

LocatorCall ==
    /\ script = "find_jito_snapshot" /\ pc = "call"
    /\ selected' = find_jito_snapshot(listing, target_epoch, target_slot)
    /\ IF selected' = <<>>
       THEN pc' = "exited" /\ exit_code' = 1
       ELSE pc' = "returned" /\ exit_code' = exit_code
    /\ UNCHANGED <<data, output, script, bin_exists, target_epoch, target_slot,
                   live_epoch, files, idx, invoked, remote, data0, runs,
                   listing, manifest, blob, uploaded, public_read,
                   manifest_blob>>

\* prepare_epoch.main, line 51: the snapshot download that follows the call.
LocatorDownload ==
    /\ script = "find_jito_snapshot" /\ pc = "returned"
    /\ remote' = Append(remote, "download_snapshot")
    /\ pc' = "exited" /\ exit_code' = 0
    /\ UNCHANGED <<data, output, script, bin_exists, target_epoch, target_slot,
                   live_epoch, files, idx, invoked, data0, runs,
                   listing, selected, manifest, blob, uploaded, public_read,
                   manifest_blob>>

NextLocator == LocatorCall \/ LocatorDownload

SpecLocator == InitLocator /\ [][NextLocator]_vars

---------------------------------------------------------------------------
(* Claims about find_jito_snapshot (SpecLocator).                          *)

\* The call has been made: it returned a blob or left through sys.exit(1).
LocatorDone == script = "find_jito_snapshot" /\ pc # "call"
LocatorExited1 == selected = <<>> /\ pc = "exited" /\ exit_code = 1 /\ remote = <<>>

\* Positions in the listing of the blobs the pattern matches.
MatchingIdx ==
    {i \in 1..Len(listing) : RegexSearch(listing[i], target_epoch, target_slot)}
\* ... that are larger than the size floor.
LargeIdx == {i \in MatchingIdx : listing[i].size > SizeFloor}
\* ... that are not below the size floor.
NotBelowIdx == {i \in MatchingIdx : listing[i].size >= SizeFloor}
\* ... that are large and whose path contains the preferred-warehouse tag.
PreferredIdx ==
    {i \in LargeIdx : Contains(listing[i].warehouse, JITO_PREFERRED_WAREHOUSE)}

\* C3: among the candidates that pass the size filter, find_jito_snapshot
\* returns the first in listing order whose path contains the preferred
\* warehouse tag, and the first in listing order when none does; so a
\* preferred candidate is returned whenever one passes the filter, in every
\* listing order.
C3_PreferredFirst ==
    (LocatorDone /\ LargeIdx # {}) =>
        /\ selected # <<>>
        /\ PreferredIdx # {} =>
              /\ selected[1] = listing[Min(PreferredIdx)]
              /\ Contains(selected[1].warehouse, JITO_PREFERRED_WAREHOUSE)
        /\ PreferredIdx = {} => selected[1] = listing[Min(LargeIdx)]

\* A preferred candidate is listed after a large candidate of another
\* warehouse, and is the one returned.
C3_Witness ==
    /\ LocatorDone /\ selected # <<>>
    /\ PreferredIdx # {}
    /\ Min(LargeIdx) < Min(PreferredIdx)
    /\ selected[1] = listing[Min(PreferredIdx)]

\* C4 as stated: no candidate below the floor is returned, the call exits
\* with status 1 and no download when no matching candidate is at or above
\* the floor, and it returns a candidate whenever a matching candidate is not
\* below the floor.
C4_NotBelowFloorReturned ==
    LocatorDone =>
        /\ selected # <<>> => selected[1].size >= SizeFloor
        /\ NotBelowIdx = {} => LocatorExited1
        /\ NotBelowIdx # {} =>
              /\ selected # <<>>
              /\ \E i \in NotBelowIdx : selected[1] = listing[i]

\* C4 as amended: the filter keeps the candidates strictly larger than the
\* floor; a candidate of exactly the floor's size is dropped with the
\* smaller ones.
C4_AboveFloorReturned ==
    LocatorDone =>
        /\ selected # <<>> => selected[1].size > SizeFloor
        /\ LargeIdx = {} => LocatorExited1
        /\ LargeIdx # {} =>
              /\ selected # <<>>
              /\ \E i \in LargeIdx : selected[1] = listing[i]

\* The only matching candidates are exactly at the floor, and the call has
\* left through sys.exit(1).
C4_Witness ==
    /\ LocatorDone
    /\ NotBelowIdx # {} /\ LargeIdx = {}
    /\ LocatorExited1

---------------------------------------------------------------------------
(* SpecPublish: upload_stats.main on every output directory the generators *)
(* can have filled: stake_pool_metas_<e>.json and stats_<e>.json files.    *)

OutputNames == {MetasFile(e) : e \in Epochs} \cup {StatsFile(e) : e \in Epochs}

\* blob_name = f"{STAKE_POOL_STATS_DIR}/{stats_file}": the object is named
\* after the file.
BlobNameOfManifest(stats_file) == ManifestName
BlobName(stats_file) == stats_file

\* Lines 41-43: the manifest after one more epoch.
AddEpochLatestIsLast(m, epoch) ==
    [latest |-> <<epoch>>, epochs |-> Append(m.epochs, epoch)]
AddEpochLatestIsMin(m, epoch) ==
    [latest |-> IF m.latest = <<>> \/ epoch < m.latest[1]
                THEN <<epoch>> ELSE m.latest,
     epochs |-> Append(m.epochs, epoch)]
AddEpoch(m, epoch) ==
    [latest |-> IF m.latest = <<>> \/ epoch > m.latest[1]
                THEN <<epoch>> ELSE m.latest,
     epochs |-> Append(m.epochs, epoch)]

InitPublish ==
    /\ data = EmptyData
    /\ output \in SUBSET OutputNames
    /\ script = "upload_stats" /\ pc = "listdir" /\ exit_code = 0
    /\ bin_exists = TRUE
    /\ target_epoch = 0 /\ target_slot = 0 /\ live_epoch = 0
    /\ files = <<>> /\ idx = 1 /\ invoked = <<>> /\ remote = <<>>
    /\ data0 = EmptyData /\ runs = 0
    /\ IdleLocator
    /\ IdlePublish

\* Lines 20-24: the listing, sorted, and the empty manifest.
PublishListdir ==
    /\ script = "upload_stats" /\ pc = "listdir"
    /\ \E order \in Perms(output) : files' = ListSort(order)
    /\ idx' = 1
    /\ manifest' = EmptyManifest
    /\ pc' = "loop"
    /\ UNCHANGED <<data, output, script, exit_code, bin_exists, target_epoch,
                   target_slot, live_epoch, invoked, remote, data0, runs,
                   listing, selected, blob, uploaded, public_read,
                   manifest_blob>>

\* Lines 26-28: a file the pattern does not match is passed over.
PublishSkip ==
    /\ script = "upload_stats" /\ pc = "loop" /\ idx =< Len(files)
    /\ ~ReMatch("stats_", ".json", files[idx])
    /\ idx' = idx + 1
    /\ UNCHANGED <<data, output, script, pc, exit_code, bin_exists,
                   target_epoch, target_slot, live_epoch, files, invoked,
                   remote, data0, runs, listing, selected, manifest, blob,
                   uploaded, public_read, manifest_blob>>

\* Lines 29-43: one stats file is uploaded, made public-read and added to
\* the manifest.  upload_from_filename or acl.save may raise, which ends
\* the process; `remote` notes that a call to the bucket raised.
PublishUpload ==
    /\ script = "upload_stats" /\ pc = "loop" /\ idx =< Len(files)
    /\ ReMatch("stats_", ".json", files[idx])
    /\ LET stats_file == files[idx]
           epoch == GroupInt(stats_file)
       IN  /\ blob' = <<BlobName(stats_file)>>
           /\ \/ /\ uploaded' = uploaded \cup {BlobName(stats_file)}
                 /\ public_read' = public_read \cup {BlobName(stats_file)}
                 /\ manifest' = AddEpoch(manifest, epoch)
                 /\ idx' = idx + 1
                 /\ UNCHANGED <<pc, exit_code, remote>>
              \/ /\ uploaded' = uploaded \cup {BlobName(stats_file)}
                 /\ pc' = "exited" /\ exit_code' = 1
                 /\ remote' = Append(remote, "raised")
                 /\ UNCHANGED <<public_read, manifest, idx>>
              \/ /\ pc' = "exited" /\ exit_code' = 1
                 /\ remote' = Append(remote, "raised")
                 /\ UNCHANGED <<uploaded, public_read, manifest, idx>>
    /\ UNCHANGED <<data, output, script, bin_exists, target_epoch, target_slot,
                   live_epoch, files, invoked, data0, runs, listing,
                   selected, manifest_blob>>

\* The object line 49 grants public-read to: `blob`, the variable the loop
\* left bound to the last stats object, where manifest_blob was just written.
GrantedAfterManifest(b) == b

\* Lines 45-50: the manifest is uploaded, then GrantedAfterManifest(blob) is
\* made public-read; with no stats file uploaded `blob` is unbound and line
\* 49 raises NameError.  upload_from_string and acl.save may raise.
PublishManifest ==
    /\ script = "upload_stats" /\ pc = "loop" /\ idx > Len(files)
    /\ \/ /\ manifest_blob' = <<manifest>>
          /\ uploaded' = uploaded \cup {ManifestName}
          /\ IF GrantedAfterManifest(blob) = <<>>
             THEN /\ pc' = "exited" /\ exit_code' = 1
                  /\ UNCHANGED <<public_read, remote>>
             ELSE \/ /\ public_read' = public_read \cup {GrantedAfterManifest(blob)[1]}
                     /\ pc' = "exited" /\ exit_code' = 0
                     /\ UNCHANGED remote
                  \/ /\ pc' = "exited" /\ exit_code' = 1
                     /\ remote' = Append(remote, "raised")
                     /\ UNCHANGED public_read
       \/ /\ pc' = "exited" /\ exit_code' = 1
          /\ remote' = Append(remote, "raised")
          /\ UNCHANGED <<manifest_blob, uploaded, public_read>>
    /\ UNCHANGED <<data, output, script, bin_exists, target_epoch, target_slot,
                   live_epoch, files, idx, invoked, data0, runs,
                   listing, selected, manifest, blob>>

NextPublish == PublishListdir \/ PublishSkip \/ PublishUpload \/ PublishManifest

SpecPublish == InitPublish /\ [][NextPublish]_vars

---------------------------------------------------------------------------
(* Claims about upload_stats.main (SpecPublish).                           *)

\* The epochs of the stats_<epoch>.json files in output/.
StatsEpochs == {e \in Epochs : StatsFile(e) \in output}
SeqRange(s) == {s[i] : i \in 1..Len(s)}

\* C1: when manifest.json is written to the bucket, the stats_<epoch>.json
\* object of every epoch in its `epochs` list, and of its `latest`, has been
\* uploaded earlier in the run.
C1_ManifestAfterData ==
    manifest_blob # <<>> =>
        \A e \in SeqRange(manifest_blob[1].epochs) \cup SeqRange(manifest_blob[1].latest) :
            StatsFile(e) \in uploaded

\* A manifest listing two epochs or more has been written.
C1_Witness ==
    /\ manifest_blob # <<>>
    /\ Len(manifest_blob[1].epochs) >= 2
    /\ \A e \in SeqRange(manifest_blob[1].epochs) : StatsFile(e) \in uploaded

\* C2: the manifest built from output/ has `latest` equal to the largest
\* epoch among the stats files and `epochs` equal, as a set, to the epochs of
\* those files, in every order os.listdir may return them.
C2_LatestIsMaxEpochsAreAll ==
    manifest_blob # <<>> =>
        /\ SeqRange(manifest_blob[1].epochs) = StatsEpochs
        /\ manifest_blob[1].latest =
              IF StatsEpochs = {} THEN <<>> ELSE <<Max(StatsEpochs)>>

\* Three stats files, sorted as strings into 1000, 516, 99, and a manifest
\* whose latest is 1000.
C2_Witness ==
    /\ manifest_blob # <<>>
    /\ StatsEpochs = {99, 516, 1000}
    /\ manifest_blob[1].epochs = <<1000, 516, 99>>
    /\ manifest_blob[1].latest = <<1000>>

---------------------------------------------------------------------------
(* Claims about the batch scripts and the workspace (Spec).                *)

BatchScripts == {"generate_all_metas", "generate_all_stats"}
MetasScripts == {"generate_metas", "generate_all_metas"}
DerivedAbsent(w) ==
    w.rocksdb = "absent" /\ w.accounts = "absent" /\ w.genesis_bin = "absent"

\* C5: in both batch scripts no generator is run for an epoch below the
\* minimum supported epoch.
C5_NoGeneratorBelowMinimum ==
    script \in BatchScripts =>
        \A i \in 1..Len(invoked) : invoked[i].epoch >= MinSupportedEpoch

\* C6: in generate_all_stats the live epoch is asked for once, before the
\* first generator run, and a run for epoch e carries
\* --use-live-price-fallback exactly when e = live epoch - 1.
C6_FallbackOnlyForLatest ==
    script = "generate_all_stats" =>
        /\ Len(remote) =< 1
        /\ invoked # <<>> => remote = <<"get_epoch_info">>
        /\ \A i \in 1..Len(invoked) :
              /\ invoked[i].binary = STATS_BINARY
              /\ invoked[i].use_live_price_fallback <=>
                    (invoked[i].epoch = live_epoch - 1)

\* One batch has run the stats generator with the flag for one epoch and
\* without it for another.
C6_Witness ==
    /\ script = "generate_all_stats"
    /\ \E i, j \in 1..Len(invoked) :
          /\ invoked[i].use_live_price_fallback
          /\ invoked[i].epoch = live_epoch - 1
          /\ ~invoked[j].use_live_price_fallback

\* C7: whenever the metas generator is about to be run on a workspace, by
\* generate_metas or generate_all_metas, that workspace holds no rocksdb, no
\* stake-pools.accounts and no genesis.bin.
C7_DerivedAbsentAtInvocation ==
    (script \in MetasScripts /\ pc = "invoke") =>
        DerivedAbsent(data[target_epoch])

\* The generator is about to be run on a workspace in which an earlier run
\* had left all three artifacts.
C7_Witness ==
    /\ script \in MetasScripts /\ pc = "invoke"
    /\ data0[target_epoch].rocksdb = "dir"
    /\ data0[target_epoch].accounts = "dir"
    /\ data0[target_epoch].genesis_bin = "file"
    /\ DerivedAbsent(data[target_epoch])

\* C8: the removal of the derived artifacts is idempotent: on every
\* workspace it raises nothing and leaves no derived artifact, a second
\* removal raises nothing and changes nothing, and a workspace without
\* derived artifacts is left as it is; and that is what generate_metas has
\* done to its workspace when it goes on to the RPC query.
C8_ResetIdempotent ==
    /\ \A e \in Epochs :
          LET once == ResetDerived(data[e])
              twice == ResetDerived(once.ws)
          IN  /\ ~once.raised /\ DerivedAbsent(once.ws)
              /\ ~twice.raised /\ twice.ws = once.ws
              /\ DerivedAbsent(data[e]) => once.ws = data[e]
    /\ (script = "generate_metas" /\ pc = "get_epoch_schedule") =>
          /\ data[target_epoch] = ResetDerived(data0[target_epoch]).ws
          /\ ResetDerived(data[target_epoch]) =
                [ws |-> data[target_epoch], raised |-> FALSE]

\* generate_metas has removed the artifacts an earlier run left, and a
\* second removal would find nothing to do.
C8_Witness ==
    /\ script = "generate_metas" /\ pc = "get_epoch_schedule"
    /\ ~DerivedAbsent(data0[target_epoch])
    /\ DerivedAbsent(data[target_epoch])
    /\ ResetDerived(data[target_epoch]).ws = data[target_epoch]

\* C9: prepare_epoch on an epoch whose directory exists ends at once with
\* status 1: no download, no RPC or bucket query, data/ as it was; the
\* directory is made only when it was missing.
C9_PrepareOneShot ==
    script = "prepare_epoch" =>
        /\ data0[target_epoch].exists =>
              /\ pc = "exited" /\ exit_code = 1
              /\ remote = <<>>
              /\ data = data0
        /\ ~data0[target_epoch].exists => data[target_epoch].exists
        /\ \A e \in Epochs \ {target_epoch} : data[e] = data0[e]

\* prepare_epoch was run on a prepared workspace and has left it alone.
C9_Witness ==
    /\ script = "prepare_epoch" /\ pc = "exited" /\ exit_code = 1
    /\ data0[target_epoch] = Prepared
    /\ data = data0 /\ remote = <<>>

\* Names of the listing a batch script runs its generator for.
Eligible ==
    IF script = "generate_all_metas"
    THEN SelectSeq(files, LAMBDA n : ReMatch("epoch_", "", n)
                                      /\ GroupInt(n) >= MinSupportedEpoch)
    ELSE SelectSeq(files, LAMBDA n : ReMatch("stake_pool_metas_", ".json", n))

\* C10: in a batch script every return of subprocess.run, whatever the
\* return code, is followed by the next entry of the listing, and a batch
\* that reaches the end of its loop has run the generator once for every
\* eligible entry, in the listing's order.
C10_BatchContinuesAfterFailure ==
    /\ [][(script \in BatchScripts /\ Len(invoked') = Len(invoked) + 1) =>
             (pc' = "loop" /\ idx' = idx + 1 /\ script' = script)]_vars
    /\ [](script \in BatchScripts /\ pc = "exited" /\ exit_code = 0 =>
             /\ Len(invoked) = Len(Eligible)
             /\ \A i \in 1..Len(invoked) : invoked[i].epoch = GroupInt(Eligible[i]))

\* A batch has run the generator again after a run that failed or was
\* killed, and has reached the end of its loop.
C10_Witness ==
    /\ script \in BatchScripts
    /\ Len(invoked) >= 2
    /\ invoked[1].rc # 0
    /\ pc = "exited" /\ exit_code = 0

---------------------------------------------------------------------------
(* Claims about the generator runs of Spec, continued.                     *)

\* C11: when the generator run by generate_metas returns a non-zero code or
\* is killed by a signal, generate_metas itself ends with a non-zero status.
C11_GeneratorFailureSurfaced ==
    (script = "generate_metas" /\ pc = "exited" /\ invoked # <<>>
        /\ invoked[Len(invoked)].rc # 0) => exit_code # 0

\* C12: a batch script runs its generator for the eligible epochs in
\* ascending order of the epoch numbers: a run for a smaller epoch comes
\* before a run for a larger one.
C12_AscendingEpochOrder ==
    script \in BatchScripts =>
        \A i, j \in 1..Len(invoked) :
            i < j => invoked[i].epoch < invoked[j].epoch

GeneratorScripts == {"generate_metas", "generate_all_metas", "generate_all_stats"}

\* C13: a run of a generator script that finds the generator's binary
\* missing runs no generator and ends with a non-zero status.
C13_MissingBinaryIsFatal ==
    (script \in GeneratorScripts /\ ~bin_exists) =>
        /\ invoked = <<>>
        /\ pc = "exited" => exit_code # 0

---------------------------------------------------------------------------
(* Claims about upload_stats.main (SpecPublish), continued.                *)

\* No call to the bucket has raised in this run.
NoUploadRaised == "raised" \notin SeqRange(remote)

\* C14: when upload_stats has ended normally, every object it wrote to the
\* bucket, the stats objects and manifest.json, has been made public-read.
C14_UploadedArePublic ==
    (script = "upload_stats" /\ pc = "exited" /\ exit_code = 0) =>
        uploaded \subseteq public_read

\* C17: a run of upload_stats in which no call to the bucket raises writes
\* manifest.json and ends with status 0; with no stats file in output/ the
\* manifest written is {"latest": null, "epochs": []}.
C17_PublishTerminatesNormally ==
    (script = "upload_stats" /\ pc = "exited" /\ NoUploadRaised) =>
        /\ exit_code = 0
        /\ manifest_blob # <<>>
        /\ StatsEpochs = {} => manifest_blob = <<EmptyManifest>>

---------------------------------------------------------------------------
(* Claims about the workspaces (Spec), continued.                          *)

\* The downloaded archives of a workspace: the directory, genesis.tar.bz2 and
\* the snapshot archive.
Archives(w) == <<w.exists, w.genesis_tar, w.snapshot>>

\* C15: the removal of the derived artifacts leaves the directory, the
\* genesis archive and the snapshot archive of the workspace as they were,
\* and no step of generate_metas or generate_all_metas changes the archives
\* of any workspace or anything in a workspace other than the one of the
\* epoch it is processing.
C15_ResetPreservesArchives ==
    /\ [](\A e \in Epochs : Archives(ResetDerived(data[e]).ws) = Archives(data[e]))
    /\ [][script' \in MetasScripts =>
            \A e \in Epochs :
                /\ Archives(data'[e]) = Archives(data[e])
                /\ e # target_epoch' => data'[e] = data[e]]_vars

\* generate_metas or generate_all_metas has removed the three derived
\* artifacts an earlier run left in a workspace, which is again as
\* prepare_epoch left it, next to another prepared workspace left untouched.
C15_Witness ==
    /\ script \in MetasScripts /\ pc = "get_epoch_schedule"
    /\ ~DerivedAbsent(data0[target_epoch])
    /\ Archives(data0[target_epoch]) = <<TRUE, TRUE, TRUE>>
    /\ data[target_epoch] = Prepared
    /\ \E e \in Epochs \ {target_epoch} : data[e] = Prepared /\ data0[e] = Prepared

---------------------------------------------------------------------------
(* Claims about the order of the steps of a run (Spec).                    *)

\* C16: a run of generate_metas prepares the workspace when it is missing,
\* resolves the epoch's last slot before it removes the derived artifacts,
\* and, once the metas generator has been run, runs the stats generator
\* before it ends.
C16_SingleEpochStepOrder ==
    script = "generate_metas" =>
        /\ ~data0[target_epoch].exists => data[target_epoch].exists
        /\ target_slot = 0 => data[target_epoch] = data0[target_epoch]
        /\ (pc = "exited" /\ \E i \in 1..Len(invoked) : invoked[i].binary = METAS_BINARY) =>
              \E i, j \in 1..Len(invoked) :
                  /\ i < j
                  /\ invoked[i].binary = METAS_BINARY
                  /\ invoked[j].binary = STATS_BINARY

---------------------------------------------------------------------------
(* Claims about the manifest (SpecPublish), continued.                     *)

\* Whether a manifest dict is consistent: latest is None exactly when epochs
\* is empty; otherwise latest is in epochs and nothing in epochs is larger;
\* and no epoch is listed twice.
Consistent(m) ==
    /\ m.latest = <<>> <=> m.epochs = <<>>
    /\ m.latest # <<>> =>
          /\ m.latest[1] \in SeqRange(m.epochs)
          /\ \A e \in SeqRange(m.epochs) : e =< m.latest[1]
    /\ \A i, j \in 1..Len(m.epochs) : m.epochs[i] = m.epochs[j] => i = j

\* C18: the manifest dict of upload_stats is consistent after every
\* iteration of the loop, and so is every manifest.json written to the
\* bucket.
C18_ManifestConsistent ==
    script = "upload_stats" =>
        /\ Consistent(manifest)
        /\ manifest_blob # <<>> => Consistent(manifest_blob[1])

\* A manifest of two epochs or more has been written whose latest is not the
\* epoch added last.
C18_Witness ==
    /\ manifest_blob # <<>>
    /\ Len(manifest_blob[1].epochs) >= 2
    /\ manifest_blob[1].latest # <<manifest_blob[1].epochs[Len(manifest_blob[1].epochs)]>>
    /\ Consistent(manifest_blob[1])

---------------------------------------------------------------------------
(* Claims about prepare and generate runs together (Spec).                 *)

\* C19: whenever the metas generator is about to be run on a workspace, by
\* generate_metas or generate_all_metas, a prepare_epoch run has completed on
\* it: the workspace holds the genesis archive and the snapshot archive.
C19_GeneratorOnlyOnPrepared ==
    (script \in MetasScripts /\ pc = "invoke") =>
        /\ data[target_epoch].genesis_tar
        /\ data[target_epoch].snapshot

===========================================================================
